---------------------------- MODULE Spec2Model ----------------------------
(***************************************************************************)
(* State-machine model of the browser dashboard script src/main.js:        *)
(* the DOMContentLoaded handler, loadTicker, renderChart, computeSMA, the  *)
(* fundamentals panel and the freshness badge, with the network and the    *)
(* user as the environment.                                                *)
(*                                                                         *)
(* Representation.  An optional JavaScript value (null / undefined /       *)
(* missing property) is the empty tuple None, a present value v is the     *)
(* one-element tuple Some(v).  A JavaScript number that results from a     *)
(* division is kept exact as the pair <<numerator, denominator>>.          *)
(***************************************************************************)
EXTENDS Integers, Sequences, FiniteSets, TLC

None == <<>>
Some(v) == <<v>>
IsSome(o) == Len(o) > 0
Val(o) == o[1]
\* a present value that is not numeric (isNaN(x) is true, x is not null)
NotANumber == <<0, 0>>
IsNaN(o) == Len(o) # 1

\* exact numbers: <<n, d>> stands for n / d, d > 0
Num(n) == <<n, 1>>
RatEq(a, b) == a[1] * b[2] = b[1] * a[2]

-----------------------------------------------------------------------------
(* Bounds of the model *)

\* dashboard fetches issued in one session (initial auto-load included)
MaxRequests == 3
\* change events the user dispatches in one session
MaxChanges == 3
\* length of the long price series (one more than the SMA period, so that
\* the fallback SMA has non-null entries)
LongLen == 21
\* pure-function check of computeSMA: series lengths, close values, periods
MaxLen == 5
MaxClose == 3
MaxPeriod == 4

\* program constant: the period renderChart passes to computeSMA
DefaultPeriod == 20

-----------------------------------------------------------------------------
(* Format helpers (src/main.js 25-44).                                     *)
(* Two-decimal quantities are integers of hundredths; the market cap is an *)
(* integer of thousands of dollars (TLC integers are 32 bits wide).  The   *)
(* inputs are non-negative and never exactly half-way between two          *)
(* hundredths, where toFixed depends on the binary expansion.              *)

Pad2(n) == IF n < 10 THEN "0" \o ToString(n) ELSE ToString(n)

\* Number(x).toFixed(2) of x = h / 100
ToFixed2(h) == ToString(h \div 100) \o "." \o Pad2(h % 100)

\* (n / unit).toFixed(2) for integers n >= 0: nearest hundredth
DivToFixed2(n, unit) == ToFixed2((n + (unit \div 200)) \div (unit \div 100))

formatNumber2(x) ==
  IF ~IsSome(x) \/ IsNaN(x) THEN "N/A"
  ELSE ToFixed2(Val(x))

\* n.toLocaleString("en-US") of n = k * 1000 dollars, 0 <= k < 1000
ToLocaleThousands(k) == IF k = 0 THEN "0" ELSE ToString(k) \o ",000"

formatMarketCap(x) ==
  IF ~IsSome(x) \/ IsNaN(x) THEN "N/A"
  ELSE LET k == Val(x) IN
    IF k >= 1000000000 THEN DivToFixed2(k, 1000000000) \o "T"
    ELSE IF k >= 1000000 THEN DivToFixed2(k, 1000000) \o "B"
    ELSE IF k >= 1000 THEN DivToFixed2(k, 1000) \o "M"
    ELSE ToLocaleThousands(k)

\* new Date(ts).toLocaleString() never throws: an unparsable ts gives
\* "Invalid Date".  A parsable ts is an integer instant.
formatTimestamp(ts) ==
  IF ~IsSome(ts) THEN "N/A"
  ELSE IF IsNaN(ts) THEN "Invalid Date"
  ELSE "locale:" \o ToString(Val(ts))

-----------------------------------------------------------------------------
(* SMA fallback (src/main.js 95-108) *)

\* mutant: the window starts one element early
JsSlice_Early(s, start, end) ==
  SubSeq(s, (IF start < 1 THEN 0 ELSE start - 1) + 1, end)

\* Array.prototype.slice(start, end), indices from 0, end exclusive
JsSlice(s, start, end) ==
  LET n == Len(s)
      from == IF start < 0 THEN (IF n + start < 0 THEN 0 ELSE n + start)
              ELSE (IF start > n THEN n ELSE start)
      to == IF end < 0 THEN (IF n + end < 0 THEN 0 ELSE n + end)
            ELSE (IF end > n THEN n ELSE end)
  IN SubSeq(s, from + 1, to)

\* slice.reduce((a, b) => a + b) of a non-empty array
RECURSIVE ReduceSum(_)
ReduceSum(s) ==
  IF Len(s) = 1 THEN s[1]
  ELSE ReduceSum(SubSeq(s, 1, Len(s) - 1)) + s[Len(s)]

Closes(priceSeries) == [k \in 1..Len(priceSeries) |-> priceSeries[k].close]

\* the for loop of computeSMA from index i (from 0) on
RECURSIVE SMALoop(_, _, _, _)
SMALoop(closes, period, i, result) ==
  IF ~(i < Len(closes)) THEN result
  ELSE IF i < period - 1
    THEN SMALoop(closes, period, i + 1, Append(result, None))
    ELSE SMALoop(closes, period, i + 1,
           Append(result,
             Some(<<ReduceSum(JsSlice(closes, i - period + 1, i + 1)), period>>)))

computeSMA(priceSeries, period) == SMALoop(Closes(priceSeries), period, 0, <<>>)

-----------------------------------------------------------------------------
(* Update fundamentals panel (src/main.js 49-74): the resulting content of *)
(* the <dl id="fundamentals"> element                                      *)

updateFundamentalsPanel(f) ==
  IF ~IsSome(f)
  THEN [innerHTML |-> "<p>No fundamentals available.</p>", rows |-> <<>>]
  ELSE [innerHTML |-> "",
        rows |-> << <<"P/E Ratio", formatNumber2(Val(f).pe_ratio)>>,
                    <<"Market Cap", formatMarketCap(Val(f).market_cap)>>,
                    <<"52-Week High", formatNumber2(Val(f).week52_high)>>,
                    <<"52-Week Low", formatNumber2(Val(f).week52_low)>>,
                    <<"Last Updated", formatTimestamp(Val(f).updated_at)>> >>]

(* Update freshness badge (src/main.js 79-90); isRecent is the optional    *)
(* value of data.metadata?.is_recent, truthy iff present and true          *)

Truthy(isRecent) == IsSome(isRecent) /\ Val(isRecent)

updateStatusBadge(isRecent) ==
  IF Truthy(isRecent)
  THEN [textContent |-> "Data <= 15 min old", stale |-> FALSE]
  ELSE [textContent |-> "Data > 15 min old", stale |-> TRUE]

\* data.metadata?.is_recent
IsRecentOf(data) ==
  IF IsSome(data.metadata) THEN Val(data.metadata).is_recent ELSE None

-----------------------------------------------------------------------------
(* Render Candlestick + SMA (src/main.js 113-169): the chart configuration *)

\* new Date(timestamp)
Date(ts) == [date |-> ts]

Candles(priceSeries) ==
  [k \in 1..Len(priceSeries) |->
     [x |-> Date(priceSeries[k].timestamp), o |-> priceSeries[k].open,
      h |-> priceSeries[k].high, l |-> priceSeries[k].low,
      c |-> priceSeries[k].close]]

\* mutant: the length of the indicators is not compared
UseBackend_AnyLength(priceSeries, indicators) == IsSome(indicators)

\* indicators && indicators.length === priceSeries.length
UseBackend(priceSeries, indicators) ==
  IsSome(indicators) /\ Len(Val(indicators)) = Len(priceSeries)

SmaValues(priceSeries, indicators) ==
  IF UseBackend(priceSeries, indicators)
  THEN [k \in 1..Len(Val(indicators)) |-> Val(indicators)[k].sma]
  ELSE computeSMA(priceSeries, DefaultPeriod)

\* smaValues[i]: undefined beyond the end of the array
At(s, k) == IF k \in 1..Len(s) THEN s[k] ELSE None

SmaData(priceSeries, indicators) ==
  LET smaValues == SmaValues(priceSeries, indicators)
  IN [k \in 1..Len(priceSeries) |->
        [x |-> Date(priceSeries[k].timestamp), y |-> At(smaValues, k)]]

ChartConfig(priceSeries, indicators) ==
  [candles |-> Candles(priceSeries), smaData |-> SmaData(priceSeries, indicators)]

\* priceSeries.map of an absent price_series throws a TypeError (line 116),
\* before the previous chart is touched
RenderThrows(data) == ~IsSome(data.price_series)

-----------------------------------------------------------------------------
(* The environment's inputs: what the backend may answer *)

PricePoint(ts, close) ==
  [timestamp |-> ts, open |-> close, high |-> close + 1, low |-> close - 1,
   close |-> close]

ShortSeries == <<PricePoint(1, 10), PricePoint(2, 20)>>
LongSeries == [k \in 1..LongLen |-> PricePoint(k, k)]

FullFundamentals ==
  [pe_ratio |-> Some(2850), market_cap |-> Some(1500000),
   week52_high |-> Some(19999), week52_low |-> Some(12405),
   updated_at |-> Some(1700)]
PartialFundamentals ==
  [pe_ratio |-> None, market_cap |-> Some(999), week52_high |-> NotANumber,
   week52_low |-> Some(5), updated_at |-> NotANumber]

\* the JSON bodies of GET /api/dashboard/{ticker}
Bundles ==
  { \* backend indicators of matching length
    [price_series |-> Some(ShortSeries),
     indicators |-> Some(<<[sma |-> None], [sma |-> Some(Num(15))]>>),
     fundamentals |-> Some(FullFundamentals),
     metadata |-> Some([is_recent |-> Some(TRUE)])],
    \* indicators absent, fundamentals null, stale
    [price_series |-> Some(LongSeries), indicators |-> None,
     fundamentals |-> None,
     metadata |-> Some([is_recent |-> Some(FALSE)])],
    \* indicators one shorter than the price series, metadata absent
    [price_series |-> Some(LongSeries),
     indicators |-> Some([k \in 1..(LongLen - 1) |-> [sma |-> Some(Num(7))]]),
     fundamentals |-> Some(PartialFundamentals),
     metadata |-> None],
    \* indicators empty while prices are not
    [price_series |-> Some(ShortSeries), indicators |-> Some(<<>>),
     fundamentals |-> Some(FullFundamentals),
     metadata |-> Some([is_recent |-> None])],
    \* empty price series
    [price_series |-> Some(<<>>), indicators |-> Some(<<>>),
     fundamentals |-> None,
     metadata |-> Some([is_recent |-> Some(TRUE)])],
    \* a 200 response without price_series
    [price_series |-> None, indicators |-> None, fundamentals |-> None,
     metadata |-> None] }

\* the ticker lists GET /api/tickers may return
TickerLists == { <<>>, <<"AAPL", "MSFT">> }

\* what the page's static HTML holds in <select id="ticker-select">
StaticOptions == { <<>>, <<"AAPL", "MSFT">> }

\* how a fetch...() call can reject: fetch itself rejects, the status is not
\* ok (lines 9, 18), resp.json() rejects
FetchFailures == {"network", "status", "json"}

\* the error console.error receives
TickersError(kind) ==
  CASE kind = "network" -> "TypeError: Failed to fetch"
    [] kind = "status" -> "Error fetching tickers"
    [] kind = "json" -> "SyntaxError"
DashboardError(kind) ==
  CASE kind = "network" -> "TypeError: Failed to fetch"
    [] kind = "status" -> "Error fetching dashboard data"
    [] kind = "json" -> "SyntaxError"
RenderError == "TypeError: priceSeries is undefined"
ShapeError == "TypeError: tickers is undefined"

-----------------------------------------------------------------------------
(* State *)

VARIABLES
  pc,          \* position of the DOMContentLoaded handler
  chart,       \* the global `chart`: 0 for null, else an index into charts
  charts,      \* every Chart instance constructed so far, in order
  select,      \* <select id="ticker-select">: options and value
  listener,    \* whether the change listener is attached
  panel,       \* <dl id="fundamentals">
  badge,       \* <span id="data-status">
  requests,    \* log of the GET /api/dashboard/... requests issued
  pending,     \* indices into requests of the fetches in flight
  alerts,      \* the alert() calls, in order
  console,     \* the console.error calls, in order
  arrivals,    \* history: the dashboard responses, in order of arrival
  changeEvents,\* history: change events dispatched on the selector
  changesHeard,\* history: those dispatched while the listener was attached
  tickersResult, \* history: how the ticker-list fetch ended
  smaIn, smaPeriod, smaOut \* computeSMA applied on its own

vars == <<pc, chart, charts, select, listener, panel, badge, requests,
          pending, alerts, console, arrivals, changeEvents, changesHeard,
          tickersResult, smaIn, smaPeriod, smaOut>>
smaVars == <<smaIn, smaPeriod, smaOut>>

\* select.value: the value of the selected option, "" without options
FirstValue(options) == IF Len(options) = 0 THEN "" ELSE options[1]

StaticPanel == [innerHTML |-> "static", rows |-> <<>>]
StaticBadge == [textContent |-> "static", stale |-> FALSE]

Init ==
  /\ pc = "loaded"
  /\ chart = 0
  /\ charts = <<>>
  /\ \E o \in StaticOptions : select = [options |-> o, value |-> FirstValue(o)]
  /\ listener = FALSE
  /\ panel = StaticPanel
  /\ badge = StaticBadge
  /\ requests = <<>>
  /\ pending = {}
  /\ alerts = <<>>
  /\ console = <<>>
  /\ arrivals = <<>>
  /\ changeEvents = 0
  /\ changesHeard = 0
  /\ tickersResult = [kind |-> "none", tickers |-> None]
  /\ smaIn = <<>> /\ smaPeriod = 1 /\ smaOut = None

-----------------------------------------------------------------------------
(* Operations *)

\* mutant: a new request aborts the fetches in flight
IssueFetch_Cancelling(ticker, trigger) ==
  /\ requests' = Append(requests, [ticker |-> ticker, trigger |-> trigger])
  /\ pending' = {Len(requests) + 1}

\* the part of loadTicker up to its await: fetchDashboardData(ticker) issues
\* the request (lines 174-176, 17)
IssueFetch(ticker, trigger) ==
  /\ requests' = Append(requests, [ticker |-> ticker, trigger |-> trigger])
  /\ pending' = pending \cup {Len(requests) + 1}

\* mutant: the previous instance is not destroyed
DestroyPrevious_Leak(cs, c) == cs

\* lines 134-136: destroy the previous instance, construct the next
DestroyPrevious(cs, c) ==
  IF c # 0 THEN [cs EXCEPT ![c].destroyed = TRUE] ELSE cs

renderChart(data, req) ==
  /\ charts' = Append(DestroyPrevious(charts, chart),
                 [destroyed |-> FALSE, req |-> req,
                  config |-> ChartConfig(Val(data.price_series), data.indicators)])
  /\ chart' = Len(charts) + 1

\* mutant: the catch block rethrows, and the handler's catch alerts too
LoadTickerCatch_Rethrow(err) ==
  /\ console' = Append(console, err)
  /\ alerts' = alerts \o <<"Error loading data.", "Error loading tickers">>

\* the catch block of loadTicker (lines 180-183)
LoadTickerCatch(err) ==
  /\ console' = Append(console, err)
  /\ alerts' = Append(alerts, "Error loading data.")

\* the event DOMContentLoaded: the handler runs up to await fetchTickers()
DOMContentLoaded ==
  /\ pc = "loaded"
  /\ pc' = "tickersPending"
  /\ UNCHANGED <<chart, charts, select, listener, panel, badge, requests,
                 pending, alerts, console, arrivals, changeEvents,
                 changesHeard, tickersResult, smaVars>>

\* fetchTickers() rejects: the handler's catch (lines 207-210)
TickersFail(kind) ==
  /\ pc = "tickersPending"
  /\ pc' = "failed"
  /\ tickersResult' = [kind |-> kind, tickers |-> None]
  /\ console' = Append(console, TickersError(kind))
  /\ alerts' = Append(alerts, "Error loading tickers")
  /\ UNCHANGED <<chart, charts, select, listener, panel, badge, requests,
                 pending, arrivals, changeEvents, changesHeard, smaVars>>

\* fetchTickers() resolves with an object without `tickers`: the selector is
\* cleared (line 194), tickers.forEach throws, the handler's catch runs
TickersMalformed ==
  /\ pc = "tickersPending"
  /\ pc' = "failed"
  /\ tickersResult' = [kind |-> "shape", tickers |-> None]
  /\ select' = [options |-> <<>>, value |-> ""]
  /\ console' = Append(console, ShapeError)
  /\ alerts' = Append(alerts, "Error loading tickers")
  /\ UNCHANGED <<chart, charts, listener, panel, badge, requests,
                 pending, arrivals, changeEvents, changesHeard, smaVars>>

\* fetchTickers() resolves with { tickers }: lines 194-203 up to the await
TickersOk(tickers) ==
  /\ pc = "tickersPending"
  /\ pc' = "initialLoad"
  /\ tickersResult' = [kind |-> "ok", tickers |-> Some(tickers)]
  /\ select' = [options |-> tickers, value |-> FirstValue(tickers)]
  /\ IssueFetch(select'.value, "init")
  /\ UNCHANGED <<chart, charts, listener, panel, badge, alerts, console,
                 arrivals, changeEvents, changesHeard, smaVars>>

\* the user selects another option: the browser dispatches `change`; the
\* listener of line 205, if attached, calls loadTicker(select.value)
Change(t) ==
  /\ changeEvents < MaxChanges
  /\ \E k \in 1..Len(select.options) : select.options[k] = t
  /\ t # select.value
  /\ listener => Len(requests) < MaxRequests
  /\ changeEvents' = changeEvents + 1
  /\ select' = [select EXCEPT !.value = t]
  /\ IF listener
     THEN IssueFetch(select'.value, "change") /\ changesHeard' = changesHeard + 1
     ELSE UNCHANGED <<requests, pending, changesHeard>>
  /\ UNCHANGED <<pc, chart, charts, listener, panel, badge, alerts, console,
                 arrivals, tickersResult, smaVars>>

\* when the initial loadTicker settles the handler resumes in the same
\* turn of the event loop and attaches the listener (lines 203-205)
ResumeInit(req) ==
  IF requests[req].trigger = "init"
  THEN pc' = "listening" /\ listener' = TRUE
  ELSE UNCHANGED <<pc, listener>>

\* mutant: the catch block also clears the fundamentals panel
DashboardFail_ClearsPanel(req, kind) ==
  /\ req \in pending
  /\ pending' = pending \ {req}
  /\ arrivals' = Append(arrivals, [req |-> req, ok |-> FALSE, data |-> None])
  /\ LoadTickerCatch(DashboardError(kind))
  /\ ResumeInit(req)
  /\ panel' = [innerHTML |-> "", rows |-> <<>>]
  /\ UNCHANGED <<chart, charts, select, badge, requests,
                 changeEvents, changesHeard, tickersResult, smaVars>>

\* the response of request req makes fetchDashboardData reject: loadTicker
\* resumes in its catch block
DashboardFail(req, kind) ==
  /\ req \in pending
  /\ pending' = pending \ {req}
  /\ arrivals' = Append(arrivals, [req |-> req, ok |-> FALSE, data |-> None])
  /\ LoadTickerCatch(DashboardError(kind))
  /\ ResumeInit(req)
  /\ UNCHANGED <<chart, charts, select, panel, badge, requests,
                 changeEvents, changesHeard, tickersResult, smaVars>>

\* mutant: a response that is not the one of the latest request is dropped
DashboardOk_LatestOnly(req, data) ==
  /\ req \in pending
  /\ pending' = pending \ {req}
  /\ arrivals' = Append(arrivals, [req |-> req, ok |-> TRUE, data |-> Some(data)])
  /\ IF RenderThrows(data)
     THEN /\ LoadTickerCatch(RenderError)
          /\ UNCHANGED <<chart, charts, panel, badge>>
     ELSE IF req # Len(requests)
     THEN UNCHANGED <<chart, charts, panel, badge, alerts, console>>
     ELSE /\ renderChart(data, req)
          /\ panel' = updateFundamentalsPanel(data.fundamentals)
          /\ badge' = updateStatusBadge(IsRecentOf(data))
          /\ UNCHANGED <<alerts, console>>
  /\ ResumeInit(req)
  /\ UNCHANGED <<select, requests, changeEvents, changesHeard,
                 tickersResult, smaVars>>

\* mutant: the panel is updated before the chart is rendered
DashboardOk_PanelFirst(req, data) ==
  /\ req \in pending
  /\ pending' = pending \ {req}
  /\ arrivals' = Append(arrivals, [req |-> req, ok |-> TRUE, data |-> Some(data)])
  /\ panel' = updateFundamentalsPanel(data.fundamentals)
  /\ IF RenderThrows(data)
     THEN /\ LoadTickerCatch(RenderError)
          /\ UNCHANGED <<chart, charts, badge>>
     ELSE /\ renderChart(data, req)
          /\ badge' = updateStatusBadge(IsRecentOf(data))
          /\ UNCHANGED <<alerts, console>>
  /\ ResumeInit(req)
  /\ UNCHANGED <<select, requests, changeEvents, changesHeard,
                 tickersResult, smaVars>>

\* the response of request req resolves with the bundle data: loadTicker
\* resumes after its await and runs lines 177-179 without suspension
DashboardOk(req, data) ==
  /\ req \in pending
  /\ pending' = pending \ {req}
  /\ arrivals' = Append(arrivals, [req |-> req, ok |-> TRUE, data |-> Some(data)])
  /\ IF RenderThrows(data)
     THEN /\ LoadTickerCatch(RenderError)
          /\ UNCHANGED <<chart, charts, panel, badge>>
     ELSE /\ renderChart(data, req)
          /\ panel' = updateFundamentalsPanel(data.fundamentals)
          /\ badge' = updateStatusBadge(IsRecentOf(data))
          /\ UNCHANGED <<alerts, console>>
  /\ ResumeInit(req)
  /\ UNCHANGED <<select, requests, changeEvents, changesHeard,
                 tickersResult, smaVars>>

Next ==
  \/ DOMContentLoaded
  \/ \E kind \in FetchFailures : TickersFail(kind)
  \/ TickersMalformed
  \/ \E tickers \in TickerLists : TickersOk(tickers)
  \/ \E t \in {"AAPL", "MSFT"} : Change(t)
  \/ \E req \in 1..MaxRequests, kind \in FetchFailures : DashboardFail(req, kind)
  \/ \E req \in 1..MaxRequests, data \in Bundles : DashboardOk(req, data)

Spec == Init /\ [][Next]_vars

\* the sessions of a page whose HTML leaves the selector empty: every option
\* the user can select was put there by the handler (lines 196-201)
InitEmptyPage == Init /\ select.options = <<>>
SpecEmptyPage == InitEmptyPage /\ [][Next]_vars

-----------------------------------------------------------------------------
(* computeSMA applied on its own to bounded inputs *)

RECURSIVE SeqsUpTo(_, _)
SeqsUpTo(S, n) ==
  IF n = 0 THEN { <<>> }
  ELSE LET shorter == SeqsUpTo(S, n - 1)
       IN shorter \cup { Append(q, v) : q \in shorter, v \in S }

ExampleCloses == <<1, 2, 3, 4, 5>>
SeriesOf(closes) == [k \in 1..Len(closes) |-> PricePoint(k, closes[k])]
SMAInputs ==
  { SeriesOf(c) : c \in SeqsUpTo(1..MaxClose, MaxLen) \cup {ExampleCloses} }

InitSMA ==
  /\ pc = "loaded"
  /\ chart = 0
  /\ charts = <<>>
  /\ select = [options |-> <<>>, value |-> ""]
  /\ listener = FALSE
  /\ panel = StaticPanel
  /\ badge = StaticBadge
  /\ requests = <<>>
  /\ pending = {}
  /\ alerts = <<>>
  /\ console = <<>>
  /\ arrivals = <<>>
  /\ changeEvents = 0
  /\ changesHeard = 0
  /\ tickersResult = [kind |-> "none", tickers |-> None]
  /\ smaIn \in SMAInputs
  /\ smaPeriod \in 1..MaxPeriod
  /\ smaOut = None

ApplySMA ==
  /\ ~IsSome(smaOut)
  /\ smaOut' = Some(computeSMA(smaIn, smaPeriod))
  /\ UNCHANGED <<pc, chart, charts, select, listener, panel, badge, requests,
                 pending, alerts, console, arrivals, changeEvents,
                 changesHeard, tickersResult, smaIn, smaPeriod>>

NextSMA == ApplySMA

SpecSMA == InitSMA /\ [][NextSMA]_vars

-----------------------------------------------------------------------------
(* Vocabulary of the properties *)

Last(s) == s[Len(s)]
Range(s) == { s[k] : k \in 1..Len(s) }

\* the loadTicker invocation this response belongs to ended in its catch
Failed(a) == ~a.ok \/ RenderThrows(Val(a.data))
Failures == { k \in 1..Len(arrivals) : Failed(arrivals[k]) }

\* the response that request req received
ArrivalOf(req) == CHOOSE a \in Range(arrivals) : a.req = req

LiveCharts == { i \in 1..Len(charts) : ~charts[i].destroyed }

\* the UI shows the bundle data: chart, panel and badge
Shows(data) ==
  /\ chart # 0
  /\ charts[chart].config.candles = Candles(Val(data.price_series))
  /\ Len(charts[chart].config.smaData) = Len(Val(data.price_series))
  /\ panel = updateFundamentalsPanel(data.fundamentals)
  /\ badge = updateStatusBadge(IsRecentOf(data))

\* sum of closes[lo..hi], indices from 0, both ends included
RECURSIVE SumRange(_, _, _)
SumRange(closes, lo, hi) ==
  IF lo > hi THEN 0 ELSE closes[lo + 1] + SumRange(closes, lo + 1, hi)

\* out is the simple moving average of closes over period P
IsSMA(out, closes, P) ==
  /\ Len(out) = Len(closes)
  /\ \A i \in 0..(Len(closes) - 1) :
       IF i < P - 1
       THEN out[i + 1] = None
       ELSE /\ IsSome(out[i + 1])
            /\ RatEq(Val(out[i + 1]), <<SumRange(closes, i - P + 1, i), P>>)

-----------------------------------------------------------------------------
(* Properties *)

\* C1: at most one Chart instance that has not been destroyed exists; every
\* instance constructed before the latest one has been destroyed; the global
\* `chart` refers to the most recently constructed instance.
C1_OneLiveChart ==
  /\ Cardinality(LiveCharts) <= 1
  /\ \A i \in 1..Len(charts) : i < Len(charts) => charts[i].destroyed
  /\ chart = Len(charts)
  /\ chart # 0 => ~charts[chart].destroyed

\* C1 witness: three renders, the last two from overlapping loads whose
\* responses arrived in the reverse of the order of their requests
C1_Witness ==
  /\ Len(charts) = 3
  /\ charts[2].req > charts[3].req
  /\ LiveCharts = {3}

\* C2 (as claimed): when the ticker list is empty the selector shows the
\* placeholder "No tickers available" and no dashboard fetch is issued.
C2_EmptyListNoFetch ==
  (tickersResult.kind = "ok" /\ Val(tickersResult.tickers) = <<>>)
    => /\ requests = <<>>
       /\ select.options = <<"No tickers available">>

\* C3 (as claimed): after any fetch failure, a later change event on the
\* selector invokes loadTicker and issues a dashboard fetch for the selected
\* value.
C3_RetryAfterFailure ==
  [][ (/\ changeEvents' = changeEvents + 1
       /\ (tickersResult.kind \in FetchFailures \/ \E k \in 1..Len(arrivals) : ~arrivals[k].ok))
      => /\ Len(requests') = Len(requests) + 1
         /\ Last(requests').ticker = select'.value
         /\ Len(requests') \in pending' ]_vars

\* C4: when no load has failed and no dashboard fetch is in flight, the
\* chart, the panel and the badge show the bundle of the response that
\* arrived last; if that response is the one of the latest of several
\* requests (AAPL then MSFT, MSFT's response last), its ticker is the value
\* the selector holds.
C4_LastArrivalWins ==
  (pending = {} /\ Failures = {} /\ arrivals # <<>>)
    => /\ Shows(Val(Last(arrivals).data))
       /\ charts[chart].req = Last(arrivals).req
       /\ (Len(requests) >= 2 /\ Last(arrivals).req = Len(requests))
            => requests[charts[chart].req].ticker = select.value

\* C4 witness: three loads, none failed, the last response is not that of
\* the last request, and the UI shows a ticker the selector does not hold
C4_Witness ==
  /\ pending = {} /\ Failures = {} /\ Len(arrivals) = 3
  /\ Last(arrivals).req = 2
  /\ charts[chart].req = 2
  /\ requests[2].ticker = "MSFT" /\ select.value = "AAPL"

\* C5: the chart, the panel and the badge are derived from one and the same
\* bundle: that of the response which constructed the current chart (or all
\* three are as the page's HTML left them).
C5_OneActiveBundle ==
  IF chart = 0
  THEN panel = StaticPanel /\ badge = StaticBadge
  ELSE /\ \E a \in Range(arrivals) : a.req = charts[chart].req /\ a.ok
       /\ Shows(Val(ArrivalOf(charts[chart].req).data))

\* C5 witness: two loads overlap, the later request's bundle is shown, then
\* the earlier request's response, which cannot be rendered, arrives
C5_Witness ==
  /\ Len(arrivals) = 3
  /\ arrivals[2].req = 3 /\ ~Failed(arrivals[2])
  /\ arrivals[3].req = 2 /\ arrivals[3].ok /\ Failed(arrivals[3])
  /\ charts[chart].req = 3
  /\ panel # updateFundamentalsPanel(Val(arrivals[3].data).fundamentals)

\* C6 (as claimed): the number of dashboard fetches equals the initial
\* auto-load plus the number of change events.
C6_FetchPerChangeEvent ==
  Len(requests) =
    Cardinality({ k \in 1..Len(requests) : requests[k].trigger = "init" })
      + changeEvents

\* C6 (amended): every change event dispatched while the listener is
\* attached issues exactly one fetch for the value selected at that moment
\* and leaves the fetches in flight in flight; a change event dispatched
\* while it is not attached issues none; a fetch leaves flight only by its
\* own response; no fetch is issued without the ticker list having loaded
\* or a change event; so the number of fetches is the auto-load (one, once
\* the ticker list has loaded) plus the change events heard by the listener.
C6_FetchPerHeardChange ==
  /\ [](Len(requests) =
          (IF tickersResult.kind = "ok" THEN 1 ELSE 0) + changesHeard)
  /\ [][ /\ (changeEvents' = changeEvents + 1 /\ listener)
            => /\ requests' = Append(requests,
                                [ticker |-> select'.value, trigger |-> "change"])
               /\ pending' = pending \cup {Len(requests')}
         /\ (changeEvents' = changeEvents + 1 /\ ~listener)
            => UNCHANGED <<requests, pending>>
         /\ requests' # requests
            => \/ changeEvents' = changeEvents + 1 /\ listener
               \/ /\ requests = <<>> /\ tickersResult.kind = "none"
                  /\ tickersResult'.kind = "ok"
                  /\ requests' = <<[ticker |-> select'.value, trigger |-> "init"]>>
         /\ \A r \in pending \ pending' :
              Len(arrivals') = Len(arrivals) + 1 /\ Last(arrivals').req = r
       ]_vars

\* C6 witness: a change event was dispatched before the listener was
\* attached, and two fetches issued by later change events are in flight
\* together
C6_Witness ==
  /\ changeEvents > changesHeard
  /\ \E i, j \in pending : i # j

\* C7: every failed load of a bundle raised exactly one "Error loading
\* data." alert and no "Error loading tickers" alert; a failed load of the
\* ticker list raised exactly one alert, "Error loading tickers", and no
\* other alert exists.
C7_OneAlertPerFailure ==
  /\ Len(console) = Len(alerts)
  /\ IF tickersResult.kind \in {"none", "ok"}
     THEN /\ Len(alerts) = Cardinality(Failures)
          /\ \A k \in 1..Len(alerts) : alerts[k] = "Error loading data."
     ELSE alerts = <<"Error loading tickers">>

\* C7 witness: the initial auto-load failed while rendering, a later load
\* failed in its fetch
C7_Witness ==
  /\ Len(arrivals) = 2
  /\ arrivals[1].req = 1 /\ arrivals[1].ok /\ Failed(arrivals[1])
  /\ ~arrivals[2].ok
  /\ listener

\* C8: for every period P >= 1 and every price sequence of length L,
\* computeSMA returns L elements, null at the indices below P - 1 and the
\* sum of closes[i-P+1 .. i] divided by P at the others; closes [1,2,3,4,5]
\* with P = 3 give [null, null, 2, 3, 4].
C8_ComputeSMA ==
  IsSome(smaOut) =>
    /\ IsSMA(Val(smaOut), Closes(smaIn), smaPeriod)
    /\ (Closes(smaIn) = ExampleCloses /\ smaPeriod = 3)
         => /\ SubSeq(Val(smaOut), 1, 2) = <<None, None>>
            /\ RatEq(Val(Val(smaOut)[3]), Num(2))
            /\ RatEq(Val(Val(smaOut)[4]), Num(3))
            /\ RatEq(Val(Val(smaOut)[5]), Num(4))

\* C8 witness: computeSMA has been applied to the closes [1,2,3,4,5], P = 3
C8_Witness ==
  /\ IsSome(smaOut)
  /\ Closes(smaIn) = ExampleCloses
  /\ smaPeriod = 3

\* C9: the SMA overlay of the chart renderChart has built has one point per
\* price point, with the price point's time; its values are the backend's
\* sma values iff the indicators are present and as long as the price
\* series, and otherwise exactly the 20-period simple moving average of the
\* closes.
C9_IndicatorFallback ==
  chart # 0 =>
    LET data == Val(ArrivalOf(charts[chart].req).data)
        prices == Val(data.price_series)
        overlay == charts[chart].config.smaData
        ys == [k \in 1..Len(overlay) |-> overlay[k].y]
    IN /\ Len(overlay) = Len(prices)
       /\ \A k \in 1..Len(prices) : overlay[k].x = Date(prices[k].timestamp)
       /\ IF IsSome(data.indicators) /\ Len(Val(data.indicators)) = Len(prices)
          THEN \A k \in 1..Len(prices) : ys[k] = Val(data.indicators)[k].sma
          ELSE IsSMA(ys, Closes(prices), DefaultPeriod)

\* C9 witness: a chart built from a bundle whose indicators are one shorter
\* than its price series; the overlay has computed values
C9_Witness ==
  /\ chart # 0
  /\ LET data == Val(ArrivalOf(charts[chart].req).data)
     IN /\ IsSome(data.indicators)
        /\ Len(Val(data.indicators)) = Len(Val(data.price_series)) - 1
        /\ IsSome(Last(charts[chart].config.smaData).y)

\* C10: the step in which a dashboard fetch fails leaves the chart, the
\* panel, the badge and the selector as they were; once the ticker-list
\* fetch has failed, the selector's options, the chart, the panel and the
\* badge are never changed.
C10_FailedFetchFrame ==
  [][ /\ (Len(arrivals') = Len(arrivals) + 1 /\ ~Last(arrivals').ok)
         => UNCHANGED <<chart, charts, panel, badge, select>>
      /\ tickersResult'.kind \in FetchFailures
         => /\ UNCHANGED <<chart, charts, panel, badge>>
            /\ select'.options = select.options
    ]_vars

\* C10 witness: a bundle is on screen and the fetch of a later load failed
C10_Witness ==
  /\ chart # 0
  /\ arrivals # <<>>
  /\ ~Last(arrivals).ok
  /\ panel.rows # <<>>

=============================================================================
